---- MODULE Spec2Model ----
(***************************************************************************)
(* Model of Proj_2.ipynb: the data preparation function data_prepared, the *)
(* training cells that build X / y, fit rf_reg, the imputer pipeline rf    *)
(* and the grid search model, and the Dash callback update_output that     *)
(* serves predictions from rf_reg.                                         *)
(*                                                                         *)
(* A DataFrame is a record [columns, index, cell]: the column names in     *)
(* order, the row labels in order, and cell[label][column].  Raw values    *)
(* are integers; the result of a division is a reduced fraction <<n, d>>,  *)
(* or Inf / NaN where pandas yields them.                                  *)
(***************************************************************************)
EXTENDS Integers, Sequences, FiniteSets, TLC

VARIABLES
    pc,          \* the notebook cell to run next, "serving" once the app runs
    csv,         \* the records of data.csv
    allow_nan,   \* whether the installed forest accepts NaN features,
                 \* settled by the first validation that meets a NaN
    df_prep,     \* the table of the first data_prepared() call
    X, y,        \* features and target
    rng42,       \* the permutation RandomState(42) yields for len(X) samples
    X_train, X_test, y_train, y_test,
    rf_reg,      \* the served estimator
    rf,          \* the pipeline SimpleImputer -> RandomForestRegressor
    model,       \* the GridSearchCV over rf
    cv_results,  \* the table made of model.cv_results_
    history,     \* the fit / score / predict calls of the training cells so
                 \* far, each with the row labels of the tables it was given
    resume,      \* the training cell still to run when the deployment cell
                 \* was run ahead of it, "" when none is
    n_clicks,    \* n_clicks of predict-button; MaxClicks stands for more too
    children,    \* children of the page's output-container-button
    responses    \* form |-> outcome of the latest click with that form

vars == <<pc, csv, allow_nan, df_prep, X, y, rng42, X_train, X_test,
          y_train, y_test, rf_reg, rf, model, cv_results, history, resume,
          n_clicks, children, responses>>

\* what the cells after rf_reg's assign
search == <<rf, model, cv_results>>

(* ---------------------------- bounds ----------------------------------- *)
MaxRows == 4
MaxClicks == 2
\* rows of the listing file the notebook is run on up to the served app
MaxHouses == 8
\* rows of the largest listing file the training cells are run on
MaxTrainRows == 13

(* ---------------------------- values ----------------------------------- *)
\* A float is a pair <<n, d>>: the reduced quotient n / d when d > 0,
\* infinity <<1, 0>> and not-a-number <<0, 0>>.
Inf == <<1, 0>>
NaN == <<0, 0>>

RECURSIVE GCD(_, _)
GCD(a, b) == IF b = 0 THEN a ELSE GCD(b, a % b)

\* the float holding the quotient n / d of two integers, d > 0
Frac(n, d) == LET g == GCD(n, d) IN <<n \div g, d \div g>>

\* a <= b on floats; every comparison with NaN is false
FloatLE(a, b) ==
    /\ a # NaN
    /\ b # NaN
    /\ a[1] * b[2] <= b[1] * a[2]

\* PdDiv with a guard that yields 0 for a zero divisor
PdDiv_guarded(a, b) ==
    IF b = 0 THEN <<0, 1>> ELSE Frac(a, b)

\* elementwise Series / Series of pandas: never raises, x/0 is inf, 0/0 is nan
PdDiv(a, b) ==
    IF b = 0 THEN (IF a = 0 THEN NaN ELSE Inf) ELSE Frac(a, b)

\* elementwise Series * Series
PdMul(a, b) == a * b

\* float64 arithmetic on finite operands; NaN spreads.  Infinite values never
\* get here: input validation rejects them before any arithmetic.
IsFinite(a) == a[2] > 0

FloatAdd(a, b) ==
    IF IsFinite(a) /\ IsFinite(b)
    THEN Frac(a[1] * b[2] + b[1] * a[2], a[2] * b[2]) ELSE NaN

FloatSub(a, b) ==
    IF IsFinite(a) /\ IsFinite(b)
    THEN Frac(a[1] * b[2] - b[1] * a[2], a[2] * b[2]) ELSE NaN

FloatMul(a, b) ==
    IF IsFinite(a) /\ IsFinite(b)
    THEN Frac(a[1] * b[1], a[2] * b[2]) ELSE NaN

\* a / b for b # 0
FloatDiv(a, b) ==
    IF IsFinite(a) /\ IsFinite(b) /\ b[1] # 0
    THEN (IF b[1] > 0 THEN Frac(a[1] * b[2], a[2] * b[1])
          ELSE Frac(-(a[1] * b[2]), -(a[2] * b[1])))
    ELSE NaN

FloatAbs(a) == IF a[1] < 0 THEN <<-a[1], a[2]>> ELSE a

\* the sum of the floats of a sequence
RECURSIVE FloatSum(_)
FloatSum(s) ==
    IF s = <<>> THEN <<0, 1>> ELSE FloatAdd(Head(s), FloatSum(Tail(s)))

\* np.mean of a non-empty sequence of floats
FloatMean(s) == FloatDiv(FloatSum(s), <<Len(s), 1>>)

(* ---------------------------- DataFrame -------------------------------- *)
Range(s) == {s[i] : i \in 1..Len(s)}

\* np.asarray : the values of f held as an array, each computed once
asarray(f) == f @@ <<>>

\* df[name] = values : overwrite in place, or append a new last column
SetColumn(df, name, values) ==
    [columns |-> IF name \in Range(df.columns) THEN df.columns
                 ELSE Append(df.columns, name),
     index   |-> df.index,
     cell    |-> [r \in Range(df.index) |->
                    [c \in Range(df.columns) \cup {name} |->
                        IF c = name THEN values[r] ELSE df.cell[r][c]]]]

\* df[mask] : keep the rows whose mask is true, in order, labels kept
BoolIndex(df, mask) ==
    LET keep == SelectSeq(df.index, LAMBDA r : mask[r])
    IN [columns |-> df.columns,
        index   |-> keep,
        cell    |-> [r \in Range(keep) |-> df.cell[r]]]

\* df.drop(columns=names)
DropColumns(df, names) ==
    LET cols == SelectSeq(df.columns, LAMBDA c : c \notin names)
    IN [columns |-> cols,
        index   |-> df.index,
        cell    |-> [r \in Range(df.index) |->
                       [c \in Range(cols) |-> df.cell[r][c]]]]

\* df.loc[labels] for a sequence of labels of df
TakeRows(df, labels) ==
    [columns |-> df.columns,
     index   |-> labels,
     cell    |-> [r \in Range(labels) |-> df.cell[r]]]

\* Series.quantile(k / 10), times 10: linear interpolation between the two
\* order statistics around position (n - 1) * k / 10 of the sorted values
QuantileTimes10(df, name, k) ==
    LET n    == Len(df.index)
        s    == SortSeq([i \in 1..n |-> df.cell[df.index[i]][name]],
                        LAMBDA a, b : a < b)
        pos  == (n - 1) * k
        lo   == pos \div 10
        frac == pos % 10
    IN IF frac = 0 THEN 10 * s[lo + 1]
       ELSE 10 * s[lo + 1] + frac * (s[lo + 2] - s[lo + 1])

\* pd.to_datetime on one 'date' string of the file
to_datetime(d) == [year |-> d[1], month |-> d[2], day |-> d[3]]

(* ---------------------------- data.csv --------------------------------- *)
RawColumns ==
    <<"date", "price", "bedrooms", "bathrooms", "sqft_living", "sqft_lot",
      "floors", "waterfront", "view", "condition", "sqft_above",
      "sqft_basement", "yr_built", "yr_renovated", "street", "city",
      "statezip", "country">>

\* the records a file is drawn from: price, bedrooms, bathrooms, sqft_living
RawRecords ==
    { <<249950, 3, 2, 1500>>,
      <<1000000, 4, 2, 2000>>,
      <<249950, 2, 0, 0>>,
      <<0, 0, 0, 0>> }

RawRow(t) ==
    [c \in Range(RawColumns) |->
        CASE c = "date"        -> <<2014, 5, 2>>
          [] c = "price"       -> t[1]
          [] c = "bedrooms"    -> t[2]
          [] c = "bathrooms"   -> t[3]
          [] c = "sqft_living" -> t[4]
          [] c = "floors"      -> 1
          [] c = "waterfront"  -> 0
          [] c = "view"        -> 0
          [] c \in {"street", "city", "statezip", "country"} -> "text"
          [] OTHER             -> 0]

\* pd.read_csv("data.csv") of a file holding the records ts
read_csv(ts) ==
    [columns |-> RawColumns,
     index   |-> [i \in 1..Len(ts) |-> i],
     cell    |-> [i \in 1..Len(ts) |-> RawRow(ts[i])]]

\* the files data_prepared is applied to: every sequence of records
Files == UNION {[1..n -> RawRecords] : n \in 1..MaxRows}

\* the files the notebook is run on: one row order for each bag of records,
\* the rows in order of price, bedrooms, bathrooms, sqft_living
RecordBefore(s, t) ==
    \E k \in 1..4 : s[k] < t[k] /\ \A j \in 1..(k - 1) : s[j] = t[j]

NotebookFiles ==
    {f \in Files : \A i \in 1..(Len(f) - 1) : f[i] = f[i + 1]
                                             \/ RecordBefore(f[i], f[i + 1])}

\* the listing files, large enough for the cells after rf_reg's: n rows, the
\* first n \div 2 a cheaper house and the rest a dearer one
CheapHouse == <<999990, 3, 2, 1500>>
DearHouse == <<1000000, 4, 2, 2000>>

HouseFile(n) ==
    [i \in 1..n |-> IF i <= n \div 2 THEN CheapHouse ELSE DearHouse]

\* the files the whole notebook is run on
ServedFiles == NotebookFiles \cup {HouseFile(MaxHouses)}

\* the files the training cells are run on
TrainFiles == NotebookFiles \cup {HouseFile(n) : n \in 1..MaxTrainRows}

(* ---------------------------- data_prepared ---------------------------- *)
\* PriceMask with the lower bound excluded
PriceMask_strict(df) ==
    [r \in Range(df.index) |->
        /\ 10 * df.cell[r]["price"] > QuantileTimes10(df, "price", 1)
        /\ 10 * df.cell[r]["price"] <= QuantileTimes10(df, "price", 9)]

\* the mask of the outlier filter, both quantiles taken on the table read
PriceMask(df) ==
    [r \in Range(df.index) |->
        /\ 10 * df.cell[r]["price"] >= QuantileTimes10(df, "price", 1)
        /\ 10 * df.cell[r]["price"] <= QuantileTimes10(df, "price", 9)]

DroppedFirst == {"country", "statezip"}

\* DroppedSecond without 'sqft_lot'
DroppedSecond_short ==
    {"sqft_above", "sqft_basement", "yr_renovated", "condition", "yr_built",
     "date", "street", "city"}

DroppedSecond == {"sqft_above", "sqft_basement", "yr_renovated", "condition",
                  "yr_built", "date", "street", "city", "sqft_lot"}

\* data_prepared that also removes the rows without a bathroom
data_prepared_guarded(file) ==
    LET df0 == read_csv(file)
        df1 == BoolIndex(df0, PriceMask(df0))
        df2 == BoolIndex(df1, [r \in Range(df1.index) |->
                                  df1.cell[r]["bathrooms"] # 0])
        df3 == SetColumn(df2, "bedrooms_to_bathrooms_ratio",
                   [r \in Range(df2.index) |->
                       PdDiv(df2.cell[r]["bedrooms"], df2.cell[r]["bathrooms"])])
        df4 == SetColumn(df3, "price_per_sqft",
                   [r \in Range(df3.index) |->
                       PdDiv(df3.cell[r]["price"], df3.cell[r]["sqft_living"])])
        df5 == SetColumn(df4, "bedrooms_bathrooms_interaction",
                   [r \in Range(df4.index) |->
                       PdMul(df4.cell[r]["bedrooms"], df4.cell[r]["bathrooms"])])
    IN DropColumns(DropColumns(df5, DroppedFirst), DroppedSecond)

data_prepared(file) ==
    LET df0 == read_csv(file)
        df1 == SetColumn(df0, "date",
                   [r \in Range(df0.index) |-> to_datetime(df0.cell[r]["date"])])
        df2 == BoolIndex(df1, PriceMask(df1))
        df3 == SetColumn(df2, "bedrooms_to_bathrooms_ratio",
                   [r \in Range(df2.index) |->
                       PdDiv(df2.cell[r]["bedrooms"], df2.cell[r]["bathrooms"])])
        df4 == SetColumn(df3, "price_per_sqft",
                   [r \in Range(df3.index) |->
                       PdDiv(df3.cell[r]["price"], df3.cell[r]["sqft_living"])])
        df5 == SetColumn(df4, "bedrooms_bathrooms_interaction",
                   [r \in Range(df4.index) |->
                       PdMul(df4.cell[r]["bedrooms"], df4.cell[r]["bathrooms"])])
        df6 == DropColumns(df5, DroppedFirst)
        df7 == DropColumns(df6, DroppedSecond)
    IN df7

(* ---------------------------- train_test_split ------------------------- *)
EmptyDF == [columns |-> <<>>, index |-> <<>>, cell |-> <<>>]
EmptySeries == [index |-> <<>>, value |-> <<>>]

\* df[name] as a Series
Column(df, name) ==
    [index |-> df.index,
     value |-> [r \in Range(df.index) |-> df.cell[r][name]]]

TakeValues(ser, labels) ==
    [index |-> labels, value |-> [r \in Range(labels) |-> ser.value[r]]]

\* RandomState(42).permutation(n) is one fixed permutation for each n; which
\* one is left open among the rotations of 1..n
Shuffles(n) ==
    {[i \in 1..n |-> ((i + k - 1) % n) + 1] : k \in 0..(n - 1)}

\* ceil(test_size * n_samples) for test_size = tenths / 10
NTest(n, tenths) == (tenths * n + 9) \div 10
NTrain(n, tenths) == n - NTest(n, tenths)

\* the split raises ValueError when the train set would be empty
SplitRaises(n, tenths) == NTrain(n, tenths) = 0

\* the first n_test shuffled positions are the test set, the rest the train set
TestLabels(index, perm, tenths) ==
    [i \in 1..NTest(Len(index), tenths) |-> index[perm[i]]]

TrainLabels(index, perm, tenths) ==
    [i \in 1..NTrain(Len(index), tenths) |->
        index[perm[NTest(Len(index), tenths) + i]]]

(* ---------------------------- RandomForestRegressor -------------------- *)
\* The forest is kept to what the notebook relies on: fit validates its
\* input and learns, from the training partition alone, parameters that
\* predict reads and never writes; a prediction is a mean of training
\* targets.  The learned parameters are one split and its two leaf means.
FloatColumns == {"bedrooms_to_bathrooms_ratio", "price_per_sqft"}

\* the float64 the estimator reads for a cell of a training table
TrainFloat(c, v) == IF c \in FloatColumns THEN v ELSE <<v, 1>>

\* an optional form value is <<>> for None and <<v>> for the number v
FormFloat(c, v) ==
    IF c \in FloatColumns THEN v
    ELSE IF v = <<>> THEN NaN ELSE <<v[1], 1>>

\* the float64 array the estimator reads: kind tells a training table from
\* the table built of a form
ToFloat(kind, c, v) ==
    IF kind = "form" THEN FormFloat(c, v) ELSE TrainFloat(c, v)

Unfitted ==
    [fitted |-> FALSE, feature_names_in_ |-> <<>>, feature |-> "",
     threshold |-> NaN, left |-> NaN, right |-> NaN]

HasInf(df, kind) ==
    \E r \in Range(df.index) : \E c \in Range(df.columns) :
        ToFloat(kind, c, df.cell[r][c]) = Inf

HasNaN(df, kind) ==
    \E r \in Range(df.index) : \E c \in Range(df.columns) :
        ToFloat(kind, c, df.cell[r][c]) = NaN

\* input validation of fit and predict: infinity always raises ValueError,
\* NaN raises unless the installed forest supports missing values
ValidationRaises(df, kind, nan_ok) ==
    HasInf(df, kind) \/ (HasNaN(df, kind) /\ ~nan_ok)

RECURSIVE SumOver(_, _)
SumOver(f, S) ==
    IF S = {} THEN 0
    ELSE LET r == CHOOSE r \in S : TRUE IN f[r] + SumOver(f, S \ {r})

\* mean of the targets of the rows in S, of all targets when S is empty
LeafValue(ys, S) ==
    LET T == IF S = {} THEN Range(ys.index) ELSE S
    IN Frac(SumOver(ys.value, T), Cardinality(T))

SplitFeatures == {"sqft_living", "price_per_sqft"}

\* the thresholds a split on feature f can take: its finite training values
Thresholds(Xt, f) ==
    {TrainFloat(f, Xt.cell[r][f]) : r \in Range(Xt.index)} \ {Inf, NaN}

\* the learned parameters: one split, each leaf the mean of its targets
Fit(Xt, ys, f, thr) ==
    LET L == {r \in Range(Xt.index) : FloatLE(TrainFloat(f, Xt.cell[r][f]), thr)}
    IN [fitted |-> TRUE,
        feature_names_in_ |-> Xt.columns,
        feature |-> f,
        threshold |-> thr,
        left |-> LeafValue(ys, L),
        right |-> LeafValue(ys, Range(Xt.index) \ L)]

\* rf_reg.predict on one row
PredictRow(forest, row, kind) ==
    IF FloatLE(ToFloat(kind, forest.feature, row[forest.feature]),
               forest.threshold)
    THEN forest.left ELSE forest.right

\* predict raises on an unfitted estimator, on feature names that differ from
\* those seen in fit, and on values that fail validation
PredictRaises(forest, df, kind, nan_ok) ==
    \/ ~forest.fitted
    \/ df.columns # forest.feature_names_in_
    \/ ValidationRaises(df, kind, nan_ok)

Predict(forest, df, kind) ==
    asarray([i \in 1..Len(df.index) |->
                PredictRow(forest, df.cell[df.index[i]], kind)])

(* ---------------------------- metrics ---------------------------------- *)
\* a Series of targets as the float64 array a metric reads
ToArray(ser) ==
    asarray([i \in 1..Len(ser.index) |-> <<ser.value[ser.index[i]], 1>>])

mean_absolute_error(y_true, y_pred) ==
    FloatMean(asarray([i \in 1..Len(y_true) |->
                          FloatAbs(FloatSub(y_true[i], y_pred[i]))]))

SumOfSquares(s) ==
    FloatSum(asarray([i \in 1..Len(s) |-> FloatMul(s[i], s[i])]))

\* the score of a regressor: 1 - sum (y - p)^2 / sum (y - mean y)^2, NaN on
\* fewer than two samples; with constant targets 1 for a perfect prediction
\* and 0 for any other
r2_score(y_true, y_pred) ==
    IF Len(y_true) < 2 THEN NaN
    ELSE LET mean == FloatMean(y_true)
             numerator ==
                 SumOfSquares(asarray([i \in 1..Len(y_true) |->
                                          FloatSub(y_true[i], y_pred[i])]))
             denominator ==
                 SumOfSquares(asarray([i \in 1..Len(y_true) |->
                                          FloatSub(y_true[i], mean)]))
         IN IF denominator # <<0, 1>>
            THEN FloatSub(<<1, 1>>, FloatDiv(numerator, denominator))
            ELSE IF numerator = <<0, 1>> THEN <<1, 1>> ELSE <<0, 1>>

(* ---------------------------- make_pipeline ---------------------------- *)
\* np.nanmean of a column: the mean of its values that are not NaN
ColumnMean(df, c) ==
    LET vals == SelectSeq([i \in 1..Len(df.index) |->
                              TrainFloat(c, df.cell[df.index[i]][c])],
                          LAMBDA v : v # NaN)
    IN IF vals = <<>> THEN NaN ELSE FloatMean(vals)

\* SimpleImputer().fit : statistics_, the mean of each column
SimpleImputerFit(df) ==
    asarray([c \in Range(df.columns) |-> ColumnMean(df, c)])

\* SimpleImputer().transform : a NaN becomes the mean of its column; a column
\* that held nothing but NaN in fit is dropped
SimpleImputerTransform(statistics, df) ==
    LET cols == SelectSeq(df.columns, LAMBDA c : statistics[c] # NaN)
    IN [columns |-> cols,
        index   |-> df.index,
        cell    |-> asarray([r \in Range(df.index) |->
                       asarray([c \in Range(cols) |->
                           IF TrainFloat(c, df.cell[r][c]) = NaN
                           THEN statistics[c] ELSE df.cell[r][c]])])]

\* the hyperparameters of RandomForestRegressor(random_state=42); <<>> is None
DefaultForest == [n_estimators |-> 100, max_depth |-> <<>>]

make_pipeline(hp) ==
    [fitted |-> FALSE, hp |-> hp, statistics_ |-> <<>>, forest |-> Unfitted]

\* SimpleImputer().fit_transform : the statistics learned of df and df imputed
fit_transform(df) ==
    LET stats == SimpleImputerFit(df)
    IN [statistics_ |-> stats, X |-> SimpleImputerTransform(stats, df)]

\* the features the forest of a pipeline can split on, Xi the imputed table
PipelineFeatures(Xi) == SplitFeatures \cap Range(Xi.columns)

\* the thresholds it can take on feature f
PipelineThresholds(Xi, f) ==
    IF Thresholds(Xi, f) = {} THEN {<<0, 1>>} ELSE Thresholds(Xi, f)

\* Pipeline.fit : the imputer is fitted, the forest is fitted on the imputed
\* table imp.X
PipelineFit(imp, ys, hp, f, thr) ==
    [fitted      |-> TRUE,
     hp          |-> hp,
     statistics_ |-> imp.statistics_,
     forest      |-> Fit(imp.X, ys, f, thr)]

\* the imputer lets NaN through and raises ValueError on infinity
PipelineRaises(est, df) == ~est.fitted \/ HasInf(df, "table")

\* Pipeline.predict : the forest predicts the imputed table
PipelinePredict(est, df) ==
    Predict(est.forest, SimpleImputerTransform(est.statistics_, df), "table")

(* ---------------------------- GridSearchCV ----------------------------- *)
\* list(range(start, stop, step)) for step > 0
PyRange(start, stop, step) ==
    [i \in 1..((stop - start + step - 1) \div step) |-> start + (i - 1) * step]

params ==
    [randomforestregressor__n_estimators |-> PyRange(25, 100, 25),
     randomforestregressor__max_depth    |-> PyRange(10, 50, 10)]

\* the candidates in the order the search takes them: the parameter names
\* sorted, the last one varying fastest
ParameterGrid(p) ==
    LET depths == p.randomforestregressor__max_depth
        trees  == p.randomforestregressor__n_estimators
    IN [i \in 1..(Len(depths) * Len(trees)) |->
          [n_estimators |-> trees[((i - 1) % Len(trees)) + 1],
           max_depth    |-> <<depths[((i - 1) \div Len(trees)) + 1]>>]]

\* cv=5 : KFold(5) without shuffling
cv == 5

\* the k-th of n_splits consecutive folds of n samples: the first n % n_splits
\* folds hold one sample more
FoldSize(n, n_splits, k) ==
    n \div n_splits + (IF k <= n % n_splits THEN 1 ELSE 0)

FoldStart(n, n_splits, k) ==
    (k - 1) * (n \div n_splits)
        + (IF k - 1 <= n % n_splits THEN k - 1 ELSE n % n_splits)

TestFold(labels, n_splits, k) ==
    SubSeq(labels, FoldStart(Len(labels), n_splits, k) + 1,
           FoldStart(Len(labels), n_splits, k)
               + FoldSize(Len(labels), n_splits, k))

TrainFold(labels, n_splits, k) ==
    SubSeq(labels, 1, FoldStart(Len(labels), n_splits, k))
        \o SubSeq(labels, FoldStart(Len(labels), n_splits, k)
                              + FoldSize(Len(labels), n_splits, k) + 1,
                  Len(labels))

\* KFold raises ValueError when there are more splits than samples
KFoldRaises(n, n_splits) == n_splits > n

\* What a forest of the search learns is fixed by the seed, the data and its
\* hyperparameters; how the hyperparameters bear on it is left open among
\* the rules: a forest of at least min_depth levels and min_trees trees ends
\* with the lowest threshold of the living area, any other with the highest.
Rules == [min_depth : {10, 30}, min_trees : {25, 75}]

SearchFeature == "sqft_living"

Least(T) == CHOOSE t \in T : \A u \in T : FloatLE(t, u)
Greatest(T) == CHOOSE t \in T : \A u \in T : FloatLE(u, t)

RuleThreshold(Xi, f, hp, rule) ==
    IF /\ hp.max_depth # <<>>
       /\ hp.max_depth[1] >= rule.min_depth
       /\ hp.n_estimators >= rule.min_trees
    THEN Least(PipelineThresholds(Xi, f))
    ELSE Greatest(PipelineThresholds(Xi, f))

\* clone(estimator).set_params(**hp).fit(Xt, ys)
CloneFit(Xt, ys, hp, rule) ==
    LET imp == fit_transform(Xt)
    IN PipelineFit(imp, ys, hp, SearchFeature,
                   RuleThreshold(imp.X, SearchFeature, hp, rule))

\* GridSearchCV(estimator=rf, param_grid=params, cv=5, refit=True); the
\* positions of cv_results_ and best_index_ count from 1
GridSearchCV(param_grid, n_splits) ==
    [fitted          |-> FALSE,
     param_grid      |-> param_grid,
     cv              |-> n_splits,
     refit           |-> TRUE,
     splits          |-> <<>>,
     cv_results_     |-> <<>>,
     best_index_     |-> 0,
     best_params_    |-> DefaultForest,
     refit_index     |-> <<>>,
     best_estimator_ |-> make_pipeline(DefaultForest)]

\* the score of one candidate on one fold: a clone is fitted on the other
\* folds and scored on this one
FoldScore(Xt, ys, n_splits, k, hp, rule) ==
    LET train == TrainFold(Xt.index, n_splits, k)
        test  == TestFold(Xt.index, n_splits, k)
        est   == CloneFit(TakeRows(Xt, train), TakeValues(ys, train), hp, rule)
    IN r2_score(ToArray(TakeValues(ys, test)),
                PipelinePredict(est, TakeRows(Xt, test)))

\* mean_test_score of one candidate
MeanTestScore(Xt, ys, n_splits, hp, rule) ==
    FloatMean(asarray([k \in 1..n_splits |->
                          FoldScore(Xt, ys, n_splits, k, hp, rule)]))

\* the candidate ranked first: the first of those with the greatest mean
\* score, a NaN ranking last
BestIndex_least(means) ==
    LET Top(i) == \A j \in 1..Len(means) :
                     means[i] = NaN \/ FloatLE(means[i], means[j])
    IN IF \A i \in 1..Len(means) : means[i] = NaN THEN 1
       ELSE CHOOSE i \in 1..Len(means) :
               Top(i) /\ \A j \in 1..(i - 1) : ~Top(j)

BestIndex(means) ==
    LET Top(i) == \A j \in 1..Len(means) :
                     means[j] = NaN \/ FloatLE(means[j], means[i])
    IN IF \A i \in 1..Len(means) : means[i] = NaN THEN 1
       ELSE CHOOSE i \in 1..Len(means) :
               Top(i) /\ \A j \in 1..(i - 1) : ~Top(j)

\* GridSearchCV.fit : every candidate is scored on every fold, the best is
\* fitted again on all of Xt
GridSearchCVFit(search_cv, Xt, ys, rule) ==
    LET grid  == ParameterGrid(search_cv.param_grid)
        means == asarray([i \in 1..Len(grid) |->
                     MeanTestScore(Xt, ys, search_cv.cv, grid[i], rule)])
        best  == BestIndex(means)
    IN [search_cv EXCEPT
          !.fitted          = TRUE,
          !.splits          = [k \in 1..search_cv.cv |->
                                  [train |-> TrainFold(Xt.index, search_cv.cv, k),
                                   test  |-> TestFold(Xt.index, search_cv.cv, k)]],
          !.cv_results_     = [i \in 1..Len(grid) |->
                                  [params          |-> grid[i],
                                   mean_test_score |-> means[i]]],
          !.best_index_     = best,
          !.best_params_    = grid[best],
          !.refit_index     = Xt.index,
          !.best_estimator_ = CloneFit(Xt, ys, grid[best], rule)]

\* cross_val_score(model, Xt, ys, cv=5) : each outer fold fits a clone of the
\* search on the other folds; a fold whose fit raises scores NaN
OuterFitRaises(n, n_splits, k, inner_splits) ==
    KFoldRaises(n - FoldSize(n, n_splits, k), inner_splits)

AllFitsFail(n, n_splits, inner_splits) ==
    \A k \in 1..n_splits : OuterFitRaises(n, n_splits, k, inner_splits)

(* ---------------------------- update_output ---------------------------- *)
DigitChar(d) == <<"0", "1", "2", "3", "4", "5", "6", "7", "8", "9">>[d + 1]

RECURSIVE Digits(_)
Digits(k) ==
    IF k < 10 THEN <<DigitChar(k)>>
    ELSE Append(Digits(k \div 10), DigitChar(k % 10))

\* Group counting the groups of three from the left
RECURSIVE Group_left(_)
Group_left(ds) ==
    IF Len(ds) <= 3 THEN ds
    ELSE SubSeq(ds, 1, 3) \o <<",">> \o Group_left(SubSeq(ds, 4, Len(ds)))

\* the ',' option of the format spec: a comma before every group of three
RECURSIVE Group(_)
Group(ds) ==
    IF Len(ds) <= 3 THEN ds
    ELSE Group(SubSeq(ds, 1, Len(ds) - 3)) \o <<",">>
         \o SubSeq(ds, Len(ds) - 2, Len(ds))

\* v rounded to hundredths, an exact tie to the even neighbour
Cents(v) ==
    LET q == (100 * v[1]) \div v[2]
        r == (100 * v[1]) % v[2]
    IN IF 2 * r > v[2] THEN q + 1
       ELSE IF 2 * r = v[2] THEN q + (q % 2)
       ELSE q

\* format(v, ",.2f") of a finite non-negative float, one character per element
FormatMoney(v) ==
    LET c == Cents(v)
    IN Group(Digits(c \div 100)) \o <<".">>
       \o <<DigitChar((c % 100) \div 10), DigitChar(c % 10)>>

Label == "Predicted Price: $"

\* the text of the html.Div returned: the label, then the amount
DivText(v) == <<Label>> \o FormatMoney(v)

InitialText == <<"Enter values and click predict">>

\* PyDiv with a guard that yields 0 for a zero divisor
PyDiv_guarded(a, b) ==
    IF a = <<>> \/ b = <<>> THEN [exc |-> "TypeError", v |-> NaN]
    ELSE IF b[1] = 0 THEN [exc |-> "", v |-> <<0, 1>>]
    ELSE [exc |-> "", v |-> Frac(a[1], b[1])]

\* Python's a / b on optional numbers
PyDiv(a, b) ==
    IF a = <<>> \/ b = <<>> THEN [exc |-> "TypeError", v |-> NaN]
    ELSE IF b[1] = 0 THEN [exc |-> "ZeroDivisionError", v |-> NaN]
    ELSE [exc |-> "", v |-> Frac(a[1], b[1])]

\* PyMul adding its operands
PyMul_sum(a, b) ==
    IF a = <<>> \/ b = <<>> THEN [exc |-> "TypeError", v |-> <<>>]
    ELSE [exc |-> "", v |-> <<a[1] + b[1]>>]

\* Python's a * b on optional numbers
PyMul(a, b) ==
    IF a = <<>> \/ b = <<>> THEN [exc |-> "TypeError", v |-> <<>>]
    ELSE [exc |-> "", v |-> <<a[1] * b[1]>>]

\* InputColumns with price_per_sqft ahead of the ratio
InputColumns_reordered ==
    <<"bedrooms", "bathrooms", "sqft_living", "floors", "waterfront", "view",
      "price_per_sqft", "bedrooms_to_bathrooms_ratio",
      "bedrooms_bathrooms_interaction">>

\* the keys of the dict literal, in order
InputColumns ==
    <<"bedrooms", "bathrooms", "sqft_living", "floors", "waterfront", "view",
      "bedrooms_to_bathrooms_ratio", "price_per_sqft",
      "bedrooms_bathrooms_interaction">>

\* the constant stored under 'price_per_sqft'
PlaceholderPricePerSqft == <<0, 1>>

InputData(f, ratio, inter) ==
    [columns |-> InputColumns,
     index   |-> <<0>>,
     cell    |-> [r \in {0} |->
        [c \in Range(InputColumns) |->
            CASE c = "bedrooms"    -> f.bedrooms
              [] c = "bathrooms"   -> f.bathrooms
              [] c = "sqft_living" -> f.sqft_living
              [] c = "floors"      -> f.floors
              [] c = "waterfront"  -> f.waterfront
              [] c = "view"        -> f.view
              [] c = "bedrooms_to_bathrooms_ratio" -> ratio
              [] c = "price_per_sqft" -> PlaceholderPricePerSqft
              [] OTHER             -> inter]]]

Outcome(kind, exc, table, calls, pred, ret) ==
    [kind |-> kind, exc |-> exc, input_data |-> table,
     predict_calls |-> calls, predicted |-> pred, returned |-> ret]

Unseen == Outcome("unseen", "", EmptyDF, 0, NaN, <<>>)

\* update_output whose answer depends on the number of clicks so far
update_output_counting(forest, nan_ok, clicks, f) ==
    IF ~(clicks > 0) THEN Outcome("none", "", EmptyDF, 0, NaN, <<>>)
    ELSE
      LET ratio == PyDiv(f.bedrooms, f.bathrooms)
          inter == PyMul(f.bedrooms, f.bathrooms)
          input_data == InputData(f, ratio.v, inter.v)
      IN IF ratio.exc # "" THEN Outcome("error", ratio.exc, EmptyDF, 0, NaN, <<>>)
         ELSE IF inter.exc # "" THEN Outcome("error", inter.exc, EmptyDF, 0, NaN, <<>>)
         ELSE IF PredictRaises(forest, input_data, "form", nan_ok)
              THEN Outcome("error", "ValueError", input_data, 1, NaN, <<>>)
         ELSE LET predicted_price ==
                      IF clicks > 1 THEN forest.right
                      ELSE Predict(forest, input_data, "form")[1]
              IN Outcome("ok", "", input_data, 1, predicted_price,
                         DivText(predicted_price))

\* one call of the callback against the estimator forest
update_output(forest, nan_ok, clicks, f) ==
    IF ~(clicks > 0) THEN Outcome("none", "", EmptyDF, 0, NaN, <<>>)
    ELSE
      LET ratio == PyDiv(f.bedrooms, f.bathrooms)
          inter == PyMul(f.bedrooms, f.bathrooms)
          input_data == InputData(f, ratio.v, inter.v)
      IN IF ratio.exc # "" THEN Outcome("error", ratio.exc, EmptyDF, 0, NaN, <<>>)
         ELSE IF inter.exc # "" THEN Outcome("error", inter.exc, EmptyDF, 0, NaN, <<>>)
         ELSE IF PredictRaises(forest, input_data, "form", nan_ok)
              THEN Outcome("error", "ValueError", input_data, 1, NaN, <<>>)
         ELSE LET predicted_price == Predict(forest, input_data, "form")[1]
              IN Outcome("ok", "", input_data, 1, predicted_price,
                         DivText(predicted_price))

Form(bed, bath, sqft, fl, wf, vw) ==
    [bedrooms |-> bed, bathrooms |-> bath, sqft_living |-> sqft,
     floors |-> fl, waterfront |-> wf, view |-> vw]

\* the layout's defaults, another in-range form, and forms with a zero or
\* an empty field
DefaultForm == Form(<<3>>, <<2>>, <<1500>>, <<1>>, <<0>>, <<0>>)
Forms ==
    { DefaultForm,
      Form(<<4>>, <<1>>, <<2000>>, <<2>>, <<1>>, <<4>>),
      Form(<<3>>, <<0>>, <<1500>>, <<1>>, <<0>>, <<0>>),
      Form(<<>>, <<2>>, <<1500>>, <<1>>, <<0>>, <<0>>),
      Form(<<3>>, <<>>, <<1500>>, <<1>>, <<0>>, <<0>>) }

(* ---------------------------- notebook --------------------------------- *)
\* a fresh kernel next to a data.csv holding the records of file
Start(file) ==
    /\ pc = "heatmap"
    /\ csv = file
    /\ allow_nan = FALSE
    /\ df_prep = EmptyDF
    /\ X = EmptyDF
    /\ y = EmptySeries
    /\ rng42 = <<>>
    /\ X_train = EmptyDF
    /\ X_test = EmptyDF
    /\ y_train = EmptySeries
    /\ y_test = EmptySeries
    /\ rf_reg = Unfitted
    /\ rf = make_pipeline(DefaultForest)
    /\ model = GridSearchCV(params, cv)
    /\ cv_results = <<>>
    /\ history = <<>>
    /\ resume = ""
    /\ n_clicks = 0
    /\ children = <<>>
    /\ responses = [f \in Forms |-> Unseen]

Init == \E file \in ServedFiles : Start(file)

InitPrep == \E file \in Files : Start(file)

InitTrain == \E file \in TrainFiles : Start(file)

InitAnyOrder == Start(HouseFile(MaxHouses))

\* one call of a training cell: the estimator, its method, the row labels of
\* the features and of the targets handed over, and the number it yields
Call(est, method, features, targets, out) ==
    [estimator |-> est, method |-> method, X |-> features.index,
     y |-> targets.index, out |-> out]

\* the heatmap cell: the first call of data_prepared()
CellHeatmap ==
    /\ pc = "heatmap"
    /\ df_prep' = data_prepared(csv)
    /\ pc' = "xy"
    /\ UNCHANGED <<csv, allow_nan, X, y, rng42, X_train, X_test, y_train,
                   y_test, rf_reg, search, history, resume, n_clicks,
                   children, responses>>

\* X, y and the 70/30 split; a raising split ends the run
CellXy ==
    /\ pc = "xy"
    /\ X' = DropColumns(data_prepared(csv), {"price"})
    /\ y' = Column(data_prepared(csv), "price")
    /\ IF SplitRaises(Len(X'.index), 3)
       THEN /\ pc' = "error"
            /\ UNCHANGED <<rng42, X_train, X_test, y_train, y_test>>
       ELSE /\ rng42' \in Shuffles(Len(X'.index))
            /\ X_train' = TakeRows(X', TrainLabels(X'.index, rng42', 3))
            /\ X_test' = TakeRows(X', TestLabels(X'.index, rng42', 3))
            /\ y_train' = TakeValues(y', TrainLabels(X'.index, rng42', 3))
            /\ y_test' = TakeValues(y', TestLabels(X'.index, rng42', 3))
            /\ pc' = "rf_reg"
    /\ UNCHANGED <<csv, allow_nan, df_prep, rf_reg, search, history, resume,
                   n_clicks, children, responses>>

\* rf_reg.score(X_test, y_test)
Score(forest, features, targets) ==
    r2_score(ToArray(targets), Predict(forest, features, "table"))

\* CellRfReg fitting rf_reg before the data is split again
CellRfReg_fit_first ==
    /\ pc = "rf_reg"
    /\ allow_nan' \in IF HasNaN(X, "table") THEN BOOLEAN ELSE {FALSE}
    /\ IF ValidationRaises(X_train, "table", allow_nan')
       THEN /\ rf_reg' = Unfitted
            /\ history' = Append(history,
                                 Call("rf_reg", "fit", X_train, y_train, NaN))
            /\ pc' = "error"
            /\ UNCHANGED <<X_train, X_test, y_train, y_test>>
       ELSE /\ \E f \in SplitFeatures :
               \E thr \in (IF Thresholds(X_train, f) = {}
                           THEN {<<0, 1>>}
                           ELSE Thresholds(X_train, f)) :
                  rf_reg' = Fit(X_train, y_train, f, thr)
            /\ X_train' = TakeRows(X, TrainLabels(X.index, rng42, 2))
            /\ X_test' = TakeRows(X, TestLabels(X.index, rng42, 2))
            /\ y_train' = TakeValues(y, TrainLabels(X.index, rng42, 2))
            /\ y_test' = TakeValues(y, TestLabels(X.index, rng42, 2))
            /\ history' =
                  history \o
                  <<Call("rf_reg", "fit", X_train, y_train, NaN),
                    Call("rf_reg", "score", X_test', y_test',
                         IF PredictRaises(rf_reg', X_test', "table", allow_nan')
                         THEN NaN ELSE Score(rf_reg', X_test', y_test'))>>
            /\ pc' = IF PredictRaises(rf_reg', X_test', "table", allow_nan')
                     THEN "error" ELSE "rf"
    /\ UNCHANGED <<csv, df_prep, X, y, rng42, search, resume, n_clicks,
                   children, responses>>

\* rf_reg is created, the data split 80/20, rf_reg fitted and scored
CellRfReg ==
    /\ pc = "rf_reg"
    /\ IF SplitRaises(Len(X.index), 2)
       THEN /\ rf_reg' = Unfitted
            /\ pc' = "error"
            /\ UNCHANGED <<allow_nan, X_train, X_test, y_train, y_test,
                           history>>
       ELSE /\ X_train' = TakeRows(X, TrainLabels(X.index, rng42, 2))
            /\ X_test' = TakeRows(X, TestLabels(X.index, rng42, 2))
            /\ y_train' = TakeValues(y, TrainLabels(X.index, rng42, 2))
            /\ y_test' = TakeValues(y, TestLabels(X.index, rng42, 2))
            /\ allow_nan' \in IF HasNaN(X, "table") THEN BOOLEAN ELSE {FALSE}
            /\ IF ValidationRaises(X_train', "table", allow_nan')
               THEN /\ rf_reg' = Unfitted
                    /\ history' =
                          Append(history,
                                 Call("rf_reg", "fit", X_train', y_train', NaN))
                    /\ pc' = "error"
               ELSE /\ \E f \in SplitFeatures :
                       \E thr \in (IF Thresholds(X_train', f) = {}
                                   THEN {<<0, 1>>}
                                   ELSE Thresholds(X_train', f)) :
                          rf_reg' = Fit(X_train', y_train', f, thr)
                    /\ history' =
                          history \o
                          <<Call("rf_reg", "fit", X_train', y_train', NaN),
                            Call("rf_reg", "score", X_test', y_test',
                                 IF PredictRaises(rf_reg', X_test', "table",
                                                  allow_nan')
                                 THEN NaN
                                 ELSE Score(rf_reg', X_test', y_test'))>>
                    /\ pc' = IF PredictRaises(rf_reg', X_test', "table",
                                              allow_nan')
                             THEN "error" ELSE "rf"
    /\ UNCHANGED <<csv, df_prep, X, y, rng42, search, resume, n_clicks,
                   children, responses>>

\* what the cells after rf_reg's leave as it is
fitted_data == <<csv, allow_nan, df_prep, X, y, rng42, X_train, X_test,
                 y_train, y_test, rf_reg>>

\* a cell run in its turn by Run All: an exception ends the run
InOrder(cell, next, ok) ==
    /\ pc = cell
    /\ pc' = IF ok THEN next ELSE "error"
    /\ UNCHANGED <<resume, n_clicks, children, responses>>

\* a cell run while the app is up, the deployment cell having been run ahead
\* of it
Later(cell, next, ok) ==
    /\ pc \in {"loading", "serving"}
    /\ resume = cell
    /\ resume' = IF ok /\ next # "deploy" THEN next ELSE ""
    /\ UNCHANGED <<pc, n_clicks, children, responses>>

\* rf = make_pipeline(SimpleImputer(), RandomForestRegressor(random_state=42))
\* and rf.fit(X_train, y_train): on a table without NaN the forest is rf_reg's
\* over again, the seed, the hyperparameters and the data being the same
RunPipeline(ok) ==
    /\ ok = ~HasInf(X_train, "table")
    /\ IF ok
       THEN LET imp == fit_transform(X_train)
            IN \E f \in PipelineFeatures(imp.X) :
                  \E thr \in PipelineThresholds(imp.X, f) :
                     /\ ~HasNaN(X_train, "table") =>
                           (f = rf_reg.feature /\ thr = rf_reg.threshold)
                     /\ rf' = PipelineFit(imp, y_train, DefaultForest, f, thr)
       ELSE rf' = make_pipeline(DefaultForest)
    /\ history' = Append(history, Call("rf", "fit", X_train, y_train, NaN))
    /\ UNCHANGED <<model, cv_results, fitted_data>>

\* the two predictions of an estimator and the two errors printed of them
Evaluate(name, est) ==
    <<Call(name, "predict", X_train, EmptySeries, NaN),
      Call(name, "predict", X_test, EmptySeries, NaN),
      Call(name, "mean_absolute_error", X_train, y_train,
           mean_absolute_error(ToArray(y_train), PipelinePredict(est, X_train))),
      Call(name, "mean_absolute_error", X_test, y_test,
           mean_absolute_error(ToArray(y_test), PipelinePredict(est, X_test)))>>

\* the training and test MAE of rf
RunMae(ok) ==
    /\ ok = (~PipelineRaises(rf, X_train) /\ ~PipelineRaises(rf, X_test))
    /\ history' = history \o
                  (IF ok THEN Evaluate("rf", rf)
                   ELSE <<Call("rf", "predict", X_train, EmptySeries, NaN)>>)
    /\ UNCHANGED <<search, fitted_data>>

\* model = GridSearchCV(...) and model.fit(X_train, y_train)
RunGrid(ok) ==
    /\ ok = ~KFoldRaises(Len(X_train.index), cv)
    /\ IF ok
       THEN \E rule \in Rules :
               model' = GridSearchCVFit(GridSearchCV(params, cv),
                                        X_train, y_train, rule)
       ELSE model' = GridSearchCV(params, cv)
    /\ history' = Append(history, Call("model", "fit", X_train, y_train, NaN))
    /\ UNCHANGED <<rf, cv_results, fitted_data>>

\* cross_val_score(model, X_train, y_train, cv=5), its scores dropped, and
\* cv_results; whether the call raises when every fit fails is up to the
\* installed library
RunCv(ok) ==
    /\ ok \in IF ~model.fitted THEN {FALSE}
              ELSE IF AllFitsFail(Len(X_train.index), cv, model.cv)
                   THEN BOOLEAN ELSE {TRUE}
    /\ cv_results' = IF ok THEN model.cv_results_ ELSE cv_results
    /\ history' = Append(history,
                         Call("model", "cross_val_score", X_train, y_train, NaN))
    /\ UNCHANGED <<rf, model, fitted_data>>

\* the training and test MAE of the searched model
RunFinalMae(ok) ==
    /\ ok = (/\ model.fitted
             /\ ~PipelineRaises(model.best_estimator_, X_train)
             /\ ~PipelineRaises(model.best_estimator_, X_test))
    /\ history' = history \o
                  (IF ok THEN Evaluate("model", model.best_estimator_)
                   ELSE <<Call("model", "predict", X_train, EmptySeries, NaN)>>)
    /\ UNCHANGED <<search, fitted_data>>

CellPipeline == \E ok \in BOOLEAN : InOrder("rf", "mae", ok) /\ RunPipeline(ok)

CellMae == \E ok \in BOOLEAN : InOrder("mae", "grid", ok) /\ RunMae(ok)

CellGrid == \E ok \in BOOLEAN : InOrder("grid", "cv", ok) /\ RunGrid(ok)

CellCv == \E ok \in BOOLEAN : InOrder("cv", "final", ok) /\ RunCv(ok)

CellFinalMae ==
    \E ok \in BOOLEAN : InOrder("final", "deploy", ok) /\ RunFinalMae(ok)

\* the deployment cell: the layout is built and the server started
CellDeploy ==
    /\ pc = "deploy"
    /\ children' = InitialText
    /\ n_clicks' = 0
    /\ pc' = "loading"
    /\ UNCHANGED <<fitted_data, search, history, resume, responses>>

\* UpdateOutput answering with the searched estimator once there is one
UpdateOutput_tuned(clicks, f) ==
    /\ pc' = "serving"
    /\ LET out == update_output(IF model.fitted
                                THEN model.best_estimator_.forest
                                ELSE rf_reg,
                                allow_nan, clicks, f)
       IN /\ children' = IF out.kind = "error" THEN children ELSE out.returned
          /\ responses' = IF clicks > 0
                          THEN [responses EXCEPT ![f] = out]
                          ELSE responses
    /\ UNCHANGED <<fitted_data, search, history, resume>>

\* UpdateOutput refitting the estimator on the test partition at each click
UpdateOutput_refit(clicks, f) ==
    /\ pc' = "serving"
    /\ LET out == update_output(rf_reg, allow_nan, clicks, f)
       IN /\ children' = IF out.kind = "error" THEN children ELSE out.returned
          /\ responses' = IF clicks > 0
                          THEN [responses EXCEPT ![f] = out]
                          ELSE responses
    /\ rf_reg' = IF clicks > 0
                 THEN Fit(X_test, y_test, rf_reg.feature, rf_reg.threshold)
                 ELSE rf_reg
    /\ UNCHANGED <<csv, allow_nan, df_prep, X, y, rng42, X_train, X_test,
                   y_train, y_test, search, history, resume>>

\* one request: the callback runs, the page shows what it returns; a raised
\* exception leaves the page as it was
UpdateOutput(clicks, f) ==
    /\ pc' = "serving"
    /\ LET out == update_output(rf_reg, allow_nan, clicks, f)
       IN /\ children' = IF out.kind = "error" THEN children ELSE out.returned
          /\ responses' = IF clicks > 0
                          THEN [responses EXCEPT ![f] = out]
                          ELSE responses
    /\ UNCHANGED <<fitted_data, search, history, resume>>

\* the page is opened: the callback fires once with the layout's n_clicks = 0
\* and the layout's default values
PageLoad ==
    /\ pc = "loading"
    /\ UNCHANGED n_clicks
    /\ UpdateOutput(n_clicks, DefaultForm)

\* the button is pressed with the form holding f: n_clicks is counted up and
\* the callback fires with the new count
Click ==
    /\ pc = "serving"
    /\ n_clicks' = IF n_clicks < MaxClicks THEN n_clicks + 1 ELSE n_clicks
    /\ \E f \in Forms : UpdateOutput(n_clicks', f)

Next ==
    \/ CellHeatmap
    \/ CellXy
    \/ CellRfReg
    \/ CellPipeline
    \/ CellMae
    \/ CellGrid
    \/ CellCv
    \/ CellFinalMae
    \/ CellDeploy
    \/ PageLoad
    \/ Click

\* the notebook run from the top
Spec == Init /\ [][Next]_vars

\* the cells that call data_prepared, on every file
NextPrep ==
    \/ CellHeatmap
    \/ CellXy

SpecPrep == InitPrep /\ [][NextPrep]_vars

\* the training cells, on the larger files too
NextTrain ==
    \/ CellHeatmap
    \/ CellXy
    \/ CellRfReg
    \/ CellPipeline
    \/ CellMae
    \/ CellGrid
    \/ CellCv
    \/ CellFinalMae

SpecTrain == InitTrain /\ [][NextTrain]_vars

\* the cells after rf_reg's, the deployment cell may be run ahead of
LateCells == {"rf", "mae", "grid", "cv", "final"}

\* the deployment cell run once rf_reg is fitted, ahead of the cells left
DeployEarly ==
    /\ pc \in LateCells
    /\ children' = InitialText
    /\ n_clicks' = 0
    /\ pc' = "loading"
    /\ resume' = pc
    /\ UNCHANGED <<fitted_data, search, history, responses>>

LatePipeline == \E ok \in BOOLEAN : Later("rf", "mae", ok) /\ RunPipeline(ok)

LateMae == \E ok \in BOOLEAN : Later("mae", "grid", ok) /\ RunMae(ok)

LateGrid == \E ok \in BOOLEAN : Later("grid", "cv", ok) /\ RunGrid(ok)

LateCv == \E ok \in BOOLEAN : Later("cv", "final", ok) /\ RunCv(ok)

LateFinalMae ==
    \E ok \in BOOLEAN : Later("final", "deploy", ok) /\ RunFinalMae(ok)

\* the cells run top to bottom, the deployment cell at any point from rf_reg's
\* fit on, requests and the cells left taking turns after it
NextAnyOrder ==
    \/ Next
    \/ DeployEarly
    \/ LatePipeline
    \/ LateMae
    \/ LateGrid
    \/ LateCv
    \/ LateFinalMae

SpecAnyOrder == InitAnyOrder /\ [][NextAnyOrder]_vars

(* ---------------------------- data preparation ------------------------- *)
\* C1: the outlier filter keeps exactly the rows of the table read whose
\* price p satisfies q10 <= p <= q90, the 10th and 90th percentiles of the
\* price column of that unfiltered table; rows on a bound are kept.
C1_FilterKeepsQuantileRange ==
    pc # "heatmap" =>
        LET raw == read_csv(csv)
            q10 == QuantileTimes10(raw, "price", 1)
            q90 == QuantileTimes10(raw, "price", 9)
        IN /\ df_prep.index =
                SelectSeq(raw.index,
                          LAMBDA r : /\ q10 <= 10 * raw.cell[r]["price"]
                                     /\ 10 * raw.cell[r]["price"] <= q90)
           /\ \A r \in Range(df_prep.index) :
                df_prep.cell[r]["price"] = raw.cell[r]["price"]

\* a file with a row kept on the lower bound and a row above the upper
\* bound dropped
C1_Witness ==
    /\ pc # "heatmap"
    /\ LET raw == read_csv(csv)
       IN /\ \E r \in Range(df_prep.index) :
                10 * raw.cell[r]["price"] = QuantileTimes10(raw, "price", 1)
          /\ \E r \in Range(raw.index) :
                /\ r \notin Range(df_prep.index)
                /\ 10 * raw.cell[r]["price"] > QuantileTimes10(raw, "price", 9)

C4_PricePerSqft ==
    pc # "heatmap" =>
        /\ \A r \in Range(df_prep.index) :
             LET p == df_prep.cell[r]["price"]
                 s == df_prep.cell[r]["sqft_living"]
                 v == df_prep.cell[r]["price_per_sqft"]
             IN IF s # 0 THEN v[2] > 0 /\ v[1] * s = p * v[2]
                ELSE v = (IF p = 0 THEN NaN ELSE Inf)
        /\ \A r \in Range(read_csv(csv).index) :
             (r \in Range(df_prep.index)) = PriceMask(read_csv(csv))[r]

\* a returned table with a finite, non-integer quotient and a row whose
\* sqft_living is 0
C4_Witness ==
    /\ pc # "heatmap"
    /\ \E r \in Range(df_prep.index) :
          /\ df_prep.cell[r]["sqft_living"] # 0
          /\ df_prep.cell[r]["price_per_sqft"][2] > 1
    /\ \E r \in Range(df_prep.index) :
          /\ df_prep.cell[r]["sqft_living"] = 0
          /\ df_prep.cell[r]["price_per_sqft"] = Inf

\* C5: bedrooms_to_bathrooms_ratio is bedrooms / bathrooms in every row
\* returned whose bathrooms is not 0; rows with bathrooms = 0 are not removed
\* and carry an infinite or undefined ratio into the training table X.
C5_BedroomsToBathroomsRatio ==
    /\ pc # "heatmap" =>
        /\ \A r \in Range(df_prep.index) :
             LET b == df_prep.cell[r]["bedrooms"]
                 t == df_prep.cell[r]["bathrooms"]
                 v == df_prep.cell[r]["bedrooms_to_bathrooms_ratio"]
             IN IF t # 0 THEN v[2] > 0 /\ v[1] * t = b * v[2]
                ELSE v \in {Inf, NaN}
        /\ \A r \in Range(read_csv(csv).index) :
             (r \in Range(df_prep.index)) = PriceMask(read_csv(csv))[r]
    /\ pc \notin {"heatmap", "xy"} =>
        /\ X.index = df_prep.index
        /\ \A r \in Range(X.index) :
             X.cell[r]["bedrooms_to_bathrooms_ratio"] =
                df_prep.cell[r]["bedrooms_to_bathrooms_ratio"]

\* a training table with a row of ratio 3/2 and a row without bathrooms whose
\* ratio is infinite
C5_Witness ==
    /\ pc \notin {"heatmap", "xy"}
    /\ \E r \in Range(X.index) :
          /\ X.cell[r]["bathrooms"] = 0
          /\ X.cell[r]["bedrooms_to_bathrooms_ratio"] = Inf
    /\ \E r \in Range(X.index) :
          /\ X.cell[r]["bathrooms"] # 0
          /\ X.cell[r]["bedrooms_to_bathrooms_ratio"] = <<3, 2>>

(* ---------------------------- prediction serving ----------------------- *)
\* C2: the feature table update_output hands to the model has the columns of
\* the training table X = data_prepared() without price: the same names, in
\* the same order, nine of them.
C2_ServingSchemaEqualsTrainingSchema ==
    pc \in {"loading", "serving"} =>
        /\ X.columns = DropColumns(data_prepared(csv), {"price"}).columns
        /\ rf_reg.feature_names_in_ = X.columns
        /\ Len(X.columns) = 9
        /\ \A f \in Forms :
             responses[f].predict_calls = 1 =>
                /\ responses[f].input_data.columns = X.columns
                /\ \A i \in 1..9 : responses[f].input_data.columns[i] = X.columns[i]
                /\ DOMAIN responses[f].input_data.cell[0] = Range(X.columns)

C2_Witness ==
    /\ pc = "serving"
    /\ \E f \in Forms :
          /\ responses[f].kind = "ok"
          /\ responses[f].predict_calls = 1
          /\ Len(responses[f].input_data.columns) = 9

\* C6 as stated: every submitted form (n_clicks > 0) gets a single-row
\* feature table with ratio = bedrooms / bathrooms, interaction = bedrooms *
\* bathrooms and price_per_sqft = 0.
C6_EverySubmittedFormBuildsTheTable ==
    \A f \in Forms :
        responses[f].kind # "unseen" =>
            /\ Len(responses[f].input_data.index) = 1
            /\ responses[f].input_data.columns = InputColumns

\* C6 amended: every submitted form whose bedrooms and bathrooms are present
\* and whose bathrooms is not 0 gets a single-row feature table with ratio =
\* bedrooms / bathrooms, interaction = bedrooms * bathrooms and
\* price_per_sqft = 0, a value no training row with price > 0 holds.
C6_DerivedFeaturesAtServing ==
    /\ \A f \in Forms :
        (/\ responses[f].kind # "unseen"
         /\ f.bedrooms # <<>>
         /\ f.bathrooms # <<>>
         /\ f.bathrooms # <<0>>) =>
            LET t == responses[f].input_data
                bed == f.bedrooms[1]
                bath == f.bathrooms[1]
            IN /\ Len(t.index) = 1
               /\ t.cell[0]["bedrooms_to_bathrooms_ratio"][2] > 0
               /\ t.cell[0]["bedrooms_to_bathrooms_ratio"][1] * bath =
                     bed * t.cell[0]["bedrooms_to_bathrooms_ratio"][2]
               /\ t.cell[0]["bedrooms_bathrooms_interaction"] = <<bed * bath>>
               /\ t.cell[0]["price_per_sqft"] = <<0, 1>>
               /\ t.cell[0]["bedrooms"] = f.bedrooms
               /\ t.cell[0]["bathrooms"] = f.bathrooms
               /\ t.cell[0]["sqft_living"] = f.sqft_living
               /\ t.cell[0]["floors"] = f.floors
               /\ t.cell[0]["waterfront"] = f.waterfront
               /\ t.cell[0]["view"] = f.view
    /\ pc \in {"loading", "serving"} =>
        \A r \in Range(X_train.index) :
            y_train.value[r] > 0 => X_train.cell[r]["price_per_sqft"] # <<0, 1>>

\* the default form answered by a model trained on rows with price > 0
C6_Witness ==
    /\ pc = "serving"
    /\ responses[DefaultForm].kind = "ok"
    /\ responses[DefaultForm].input_data.cell[0]["bedrooms_to_bathrooms_ratio"]
          = <<3, 2>>
    /\ \E r \in Range(X_train.index) : y_train.value[r] > 0

\* C7: for the fitted model, two clicks with the same six input values get
\* the same outcome and the same predicted-price string, whatever was served
\* before or between them.
C7_PredictionDeterministic ==
    [][\A f \in Forms :
          responses[f].kind # "unseen" => responses'[f] = responses[f]]_vars

\* a form answered with a price at the second click or later, no other form
\* having been submitted, so that form was submitted at least twice
C7_Witness ==
    /\ pc = "serving"
    /\ n_clicks >= 2
    /\ \E f \in Forms :
          /\ responses[f].kind = "ok"
          /\ \A g \in Forms \ {f} : responses[g].kind = "unseen"

\* C8: a submission with six values inside the layout's ranges, the default
\* form among them, gets exactly one prediction; the price is non-negative,
\* lying between two training targets, and is rendered as 'Predicted Price: $', the integer part in groups of
\* three separated by commas, a point and exactly two decimals.
C8_ValidFormGetsFormattedPrice ==
    \A f \in Forms :
        (/\ responses[f].kind # "unseen"
         /\ \A v \in {f.bedrooms, f.bathrooms, f.sqft_living, f.floors,
                      f.waterfront, f.view} : v # <<>>
         /\ f.bedrooms[1] \in 1..10
         /\ f.bathrooms[1] \in 1..10
         /\ f.sqft_living[1] \in 500..10000
         /\ f.floors[1] \in 1..5
         /\ f.waterfront[1] \in 0..1
         /\ f.view[1] \in 0..4) =>
            LET o == responses[f]
                amount == Tail(o.returned)
                n == Len(amount)
                digits == {DigitChar(d) : d \in 0..9}
                RECURSIVE Value(_)
                Value(i) ==
                    IF i = 0 THEN 0
                    ELSE IF amount[i] \in {",", "."} THEN Value(i - 1)
                    ELSE 10 * Value(i - 1)
                         + (CHOOSE d \in 0..9 : DigitChar(d) = amount[i])
                diff == 200 * o.predicted[1] - 2 * Value(n) * o.predicted[2]
            IN /\ o.kind = "ok"
               /\ o.predict_calls = 1
               /\ Len(o.input_data.index) = 1
               /\ o.predicted[2] > 0
               /\ o.predicted[1] >= 0
               /\ \E lo, hi \in Range(y_train.index) :
                     /\ y_train.value[lo] * o.predicted[2] <= o.predicted[1]
                     /\ o.predicted[1] <= y_train.value[hi] * o.predicted[2]
               /\ Len(o.returned) >= 5
               /\ o.returned[1] = "Predicted Price: $"
               /\ amount[n - 2] = "."
               /\ amount[n - 1] \in digits
               /\ amount[n] \in digits
               /\ \A i \in 1..(n - 3) :
                     IF (n - 2 - i) % 4 = 0 THEN amount[i] = ","
                     ELSE amount[i] \in digits
               /\ (amount[1] = "0" => n = 4)
               /\ diff <= o.predicted[2]
               /\ -diff <= o.predicted[2]

\* the default form answered with a price of seven digits or with a price
\* whose cents are rounded
C8_Witness ==
    /\ pc = "serving"
    /\ responses[DefaultForm].kind = "ok"
    /\ LET amount == Tail(responses[DefaultForm].returned)
       IN \/ Len(amount) = 12
          \/ amount[Len(amount)] # "0"

\* C9: no request changes the fitted model or any other state that requests
\* share: once the app is deployed rf_reg is fitted, and the learned
\* parameters, the tables and the partitions stay as training left them.
C9_ServedModelImmutable ==
    [][(pc = "loading" \/ pc = "serving") =>
          (rf_reg.fitted /\
           UNCHANGED <<rf_reg, csv, allow_nan, df_prep, X, y, rng42,
                       X_train, X_test, y_train, y_test>>)]_vars

\* after two clicks or more, one failed and one answered
C9_Witness ==
    /\ pc = "serving"
    /\ n_clicks >= 2
    /\ rf_reg.fitted
    /\ \E f \in Forms : responses[f].kind = "error"
    /\ \E f \in Forms : responses[f].kind = "ok"

\* C10: a submission without bedrooms or bathrooms, or with bathrooms = 0,
\* ends in an exception raised while the derived features are computed: no
\* table is built, the model is not called, nothing is returned and the page
\* keeps what it showed.
C10_BadFormRaisesBeforePredict ==
    /\ \A f \in Forms :
        (/\ responses[f].kind # "unseen"
         /\ (f.bedrooms = <<>> \/ f.bathrooms = <<>> \/ f.bathrooms = <<0>>)) =>
            /\ responses[f].kind = "error"
            /\ responses[f].exc \in {"TypeError", "ZeroDivisionError"}
            /\ (f.bedrooms # <<>> /\ f.bathrooms = <<0>>
                   => responses[f].exc = "ZeroDivisionError")
            /\ responses[f].input_data = EmptyDF
            /\ responses[f].predict_calls = 0
            /\ responses[f].returned = <<>>
    /\ pc = "serving" =>
        \/ children = <<>>
        \/ \E g \in Forms : /\ responses[g].kind = "ok"
                            /\ children = responses[g].returned

\* the three kinds of bad form have all been submitted
C10_Witness ==
    /\ pc = "serving"
    /\ \E f \in Forms : f.bedrooms = <<>> /\ responses[f].exc = "TypeError"
    /\ \E f \in Forms : f.bathrooms = <<>> /\ responses[f].exc = "TypeError"
    /\ \E f \in Forms : /\ f.bathrooms = <<0>>
                        /\ responses[f].exc = "ZeroDivisionError"

(* ---------------------------- grid search ------------------------------ *)
\* the cross-validated error of candidate i: what its mean score lacks of 1
CvError(i) == FloatSub(<<1, 1>>, model.cv_results_[i].mean_test_score)

\* C11: a fitted grid search has evaluated exactly the 12 combinations of
\* n_estimators in {25, 50, 75} and max_depth in {10, 20, 30, 40}, each on 5
\* folds of the training partition; no combination has a smaller
\* cross-validated error than the one selected; and the selected combination
\* is fitted again on the whole training partition.
C11_GridSearchSelectsAndRefits ==
    model.fitted =>
        LET results == model.cv_results_
            best    == model.best_index_
            forest  == model.best_estimator_.forest
            rows    == Range(X_train.index)
        IN /\ Len(results) = 12
           /\ {results[i].params : i \in 1..Len(results)}
                 = [n_estimators : {25, 50, 75},
                    max_depth    : {<<10>>, <<20>>, <<30>>, <<40>>}]
           /\ Len(model.splits) = 5
           /\ \A k \in 1..Len(model.splits) :
                 /\ Range(model.splits[k].test) # {}
                 /\ Range(model.splits[k].train)
                       = rows \ Range(model.splits[k].test)
                 /\ Len(model.splits[k].train) + Len(model.splits[k].test)
                       = Len(X_train.index)
                 /\ \A l \in 1..Len(model.splits) :
                       l # k => Range(model.splits[k].test)
                                   \cap Range(model.splits[l].test) = {}
           /\ UNION {Range(model.splits[k].test) : k \in 1..Len(model.splits)}
                 = rows
           /\ best \in 1..Len(results)
           /\ \A j \in 1..Len(results) :
                 ~(FloatLE(CvError(j), CvError(best))
                      /\ CvError(j) # CvError(best))
           /\ model.best_params_ = results[best].params
           /\ model.refit_index = X_train.index
           /\ model.best_estimator_
                 = PipelineFit(fit_transform(X_train), y_train,
                               model.best_params_, forest.feature,
                               forest.threshold)

\* a search whose scores are defined and differ, the selected combination
\* not the first of the grid
C11_Witness ==
    /\ model.fitted
    /\ model.best_index_ > 1
    /\ model.cv_results_[1].mean_test_score # NaN
    /\ FloatLE(CvError(model.best_index_), CvError(1))
    /\ CvError(model.best_index_) # CvError(1)

(* ---------------------------- the two splits --------------------------- *)
\* the partitions train_test_split(X, y, test_size=tenths / 10,
\* random_state=42) yields: the labels of the train and of the test rows
Split(tenths) ==
    [train |-> TrainLabels(X.index, rng42, tenths),
     test  |-> TestLabels(X.index, rng42, tenths)]

\* the partitions of a split are disjoint, cover the prepared rows, and the
\* test partition is tenths / 10 of them, rounded up
IsSplit(p, tenths) ==
    /\ Range(p.train) \cap Range(p.test) = {}
    /\ Range(p.train) \cup Range(p.test) = Range(X.index)
    /\ Len(p.train) + Len(p.test) = Len(X.index)
    /\ 10 * Len(p.test) >= tenths * Len(X.index)
    /\ 10 * (Len(p.test) - 1) < tenths * Len(X.index)

\* X_train, X_test, y_train, y_test are the partitions p
Assigned(p) ==
    /\ X_train = TakeRows(X, p.train)
    /\ X_test = TakeRows(X, p.test)
    /\ y_train = TakeValues(y, p.train)
    /\ y_test = TakeValues(y, p.test)

\* C12: with the cells run in order the data is split 70/30 and then 80/20,
\* each time into disjoint partitions that cover the prepared rows; nothing
\* is fitted or evaluated while the 70/30 partitions are assigned; rf_reg,
\* the pipeline rf and the grid search are fitted on the 80% partition, and
\* every score and MAE is taken on the 80% or the 20% partition.
C12_EveryFitUsesTheSecondSplit ==
    /\ pc = "rf_reg" =>
          /\ Assigned(Split(3))
          /\ IsSplit(Split(3), 3)
          /\ history = <<>>
          /\ ~rf_reg.fitted /\ ~rf.fitted /\ ~model.fitted
    /\ (rf_reg.fitted \/ rf.fitted \/ model.fitted) => history # <<>>
    /\ history # <<>> =>
          LET p == Split(2)
          IN /\ Assigned(p)
             /\ IsSplit(p, 2)
             /\ \A i \in 1..Len(history) :
                   /\ history[i].X \in {p.train, p.test}
                   /\ history[i].method \in {"fit", "cross_val_score"} =>
                         (history[i].X = p.train /\ history[i].y = p.train)
                   /\ history[i].method \in {"score", "mean_absolute_error"} =>
                         history[i].y = history[i].X
             /\ rf_reg.fitted =>
                   rf_reg = Fit(TakeRows(X, p.train), TakeValues(y, p.train),
                                rf_reg.feature, rf_reg.threshold)
             /\ rf.fitted =>
                   rf = PipelineFit(fit_transform(TakeRows(X, p.train)),
                                    TakeValues(y, p.train), DefaultForest,
                                    rf.forest.feature, rf.forest.threshold)
             /\ model.fitted =>
                   /\ model.refit_index = p.train
                   /\ \A k \in 1..Len(model.splits) :
                         Range(model.splits[k].train)
                            \cup Range(model.splits[k].test) = Range(p.train)

\* all cells have run, the three estimators are fitted, both scores and
\* both pairs of MAE are taken, and the two splits differ in both partitions
C12_Witness ==
    /\ pc = "deploy"
    /\ rf_reg.fitted /\ rf.fitted /\ model.fitted
    /\ \A e \in {"rf_reg", "rf", "model"} :
          \E i \in 1..Len(history) :
             history[i].estimator = e /\ history[i].method = "fit"
    /\ \A e \in {"rf", "model"} :
          \E i \in 1..Len(history) :
             /\ history[i].estimator = e
             /\ history[i].method = "mean_absolute_error"
             /\ history[i].X = Split(2).test
    /\ Split(3).train # Split(2).train
    /\ Split(3).test # Split(2).test

====
